---- MODULE Spec2Model ----
(***************************************************************************)
(* Model of contrib/clean_up_everything.py: the CleanUpDlg dialog that     *)
(* removes chosen assets from Metashape projects.  The state is the        *)
(* dialog's widgets, the documents known to the host (the application's    *)
(* current document and the project files on disk) and the position of     *)
(* the handler that is running; one action per handler step.               *)
(***************************************************************************)
EXTENDS Integers, Sequences, FiniteSets, TLC

(***************************************************************************)
(* Bounds of the model.                                                    *)
(***************************************************************************)
\* checkbox clicks the user makes in the asset list during one session
MaxToggles == 3
\* host calls that raise during one session
MaxFaults == 2
\* clicks on the three mode buttons during one session
MaxBatches == 1

(***************************************************************************)
(* Asset kinds: the checkboxes of __init__ and the labels handle_assets    *)
(* dispatches on.                                                          *)
(***************************************************************************)
Range(s) == {s[k] : k \in 1..Len(s)}

\* self.checkboxes, in declaration (dict insertion) order
CheckboxOrder ==
    <<"Key Points", "Tie Points", "Depth Maps", "Point Clouds", "Models",
      "DEMs", "Orthophotos", "Orthomosaics", "Shapes">>

CheckboxLabels == Range(CheckboxOrder)

\* the setChecked(True) calls of __init__
DefaultChecked == {"Orthophotos", "Orthomosaics", "DEMs", "Point Clouds"}

\* the labels the if/elif chain of handle_assets knows
ValidLabels ==
    {"Key Points", "Tie Points", "Depth Maps", "Point Clouds", "Models",
     "Tiled Models", "DEMs", "Orthophotos", "Orthomosaics", "Shapes"}

\* labels outside the enumeration, as inputs of handle_assets
UnknownLabels == {"Cameras", "key points", ""}

\* get_selected_assets in reverse declaration order
get_selected_assets_reversed(chk) ==
    LET n == Len(CheckboxOrder)
        rev == [k \in 1..n |-> CheckboxOrder[n + 1 - k]]
    IN  SelectSeq(rev, LAMBDA a : a \in chk)

\* get_selected_assets: the checked labels, in dict order
get_selected_assets(chk) == SelectSeq(CheckboxOrder, LAMBDA a : a \in chk)

(***************************************************************************)
(* The host's chunk.  doc.chunk is None for a document without chunks.     *)
(***************************************************************************)
\* the chunk collections that chunk.remove(...) is called on
Collections ==
    {"depth_maps_sets", "point_clouds", "models", "tiled_models", "elevations"}

\* None, as returned by document.chunk
NoChunk ==
    [kind |-> "None", label |-> "", tie_points |-> "None",
     orthomosaics |-> <<>>, collections |-> {}, shapes |-> FALSE]

MkChunk(l, tp, om, cs, sh) ==
    [kind |-> "Chunk", label |-> l, tie_points |-> tp,
     orthomosaics |-> om, collections |-> cs, shapes |-> sh]

\* the chunk.<collection> each chunk.remove(...) label is mapped to
CollectionOf(asset_type) ==
    CASE asset_type = "Depth Maps" -> "depth_maps_sets"
      [] asset_type = "Point Clouds" -> "point_clouds"
      [] asset_type = "Models" -> "models"
      [] asset_type = "Tiled Models" -> "tiled_models"
      [] asset_type = "DEMs" -> "elevations"

\* HostOps with the Key Points guard dropped and one call for all orthophotos
HostOpsOnePerLabel(chunk, asset_type) ==
    CASE asset_type = "Key Points" -> <<[op |-> "removeKeypoints", arg |-> 0]>>
      [] asset_type = "Tie Points" -> <<[op |-> "set tie_points", arg |-> 0]>>
      [] asset_type = "Orthophotos" -> <<[op |-> "removeOrthophotos", arg |-> 1]>>
      [] asset_type = "Orthomosaics" -> <<[op |-> "remove orthomosaics", arg |-> 0]>>
      [] asset_type = "Shapes" -> <<[op |-> "set shapes", arg |-> 0]>>
      [] OTHER -> <<[op |-> "remove " \o CollectionOf(asset_type), arg |-> 0]>>

\* The host operations one branch of handle_assets performs on a chunk, in
\* order, when none of them raises.
HostOps(chunk, asset_type) ==
    CASE asset_type = "Key Points" ->
            IF chunk.tie_points # "None"
            THEN <<[op |-> "removeKeypoints", arg |-> 0]>>
            ELSE <<>>
      [] asset_type = "Tie Points" -> <<[op |-> "set tie_points", arg |-> 0]>>
      [] asset_type = "Orthophotos" ->
            [k \in 1..Len(chunk.orthomosaics) |->
                [op |-> "removeOrthophotos", arg |-> k]]
      [] asset_type = "Orthomosaics" -> <<[op |-> "remove orthomosaics", arg |-> 0]>>
      [] asset_type = "Shapes" -> <<[op |-> "set shapes", arg |-> 0]>>
      [] OTHER -> <<[op |-> "remove " \o CollectionOf(asset_type), arg |-> 0]>>

\* The effect of one host operation that returns normally.
ApplyOp(chunk, asset_type, o) ==
    CASE o.op = "removeKeypoints" -> [chunk EXCEPT !.tie_points = "nokp"]
      [] o.op = "set tie_points" -> [chunk EXCEPT !.tie_points = "None"]
      [] o.op = "removeOrthophotos" ->
            [chunk EXCEPT !.orthomosaics[o.arg] = FALSE]
      [] o.op = "remove orthomosaics" -> [chunk EXCEPT !.orthomosaics = <<>>]
      [] o.op = "set shapes" -> [chunk EXCEPT !.shapes = FALSE]
      [] OTHER ->
            [chunk EXCEPT !.collections = @ \ {CollectionOf(asset_type)}]

RECURSIVE ApplyOps(_, _, _)
ApplyOps(chunk, asset_type, ops) ==
    IF ops = <<>> THEN chunk
    ELSE ApplyOps(ApplyOp(chunk, asset_type, Head(ops)), asset_type, Tail(ops))

\* handle_assets that takes an unknown label for "Shapes"
handle_assets_default_shapes(chunk, asset_type, fault) ==
    IF chunk.kind = "None"
    THEN [ret |-> "raise", chunk |-> chunk, ops |-> <<>>]
    ELSE LET a == IF asset_type \in ValidLabels THEN asset_type ELSE "Shapes"
             planned == HostOps(chunk, a)
             raised == fault \in 1..Len(planned)
             done == IF raised THEN fault - 1 ELSE Len(planned)
         IN  [ret |-> IF raised THEN "False" ELSE "True",
              chunk |-> ApplyOps(chunk, a, SubSeq(planned, 1, done)),
              ops |-> SubSeq(planned, 1, IF raised THEN fault ELSE done)]

\* handle_assets(chunk, asset_type).  fault = k > 0 makes the k-th host
\* operation of the call raise; 0 lets every host operation return.
\* ret is "True" or "False" for the value returned and "raise" when an
\* exception leaves the function: the except clause formats chunk.label,
\* which raises again when chunk is None.
handle_assets(chunk, asset_type, fault) ==
    IF asset_type \notin ValidLabels
    THEN [ret |-> "False", chunk |-> chunk, ops |-> <<>>]
    ELSE IF chunk.kind = "None"
    THEN [ret |-> "raise", chunk |-> chunk, ops |-> <<>>]
    ELSE LET planned == HostOps(chunk, asset_type)
             raised == fault \in 1..Len(planned)
             done == IF raised THEN fault - 1 ELSE Len(planned)
         IN  [ret |-> IF raised THEN "False" ELSE "True",
              chunk |-> ApplyOps(chunk, asset_type, SubSeq(planned, 1, done)),
              ops |-> SubSeq(planned, 1, IF raised THEN fault ELSE done)]

(***************************************************************************)
(* The file system remove_from_subfolders walks.  A file name is the       *)
(* sequence of its characters; a directory is named by an identifier.      *)
(***************************************************************************)
UpperCase ==
    <<"A", "B", "C", "D", "E", "F", "G", "H", "I", "J", "K", "L", "M",
      "N", "O", "P", "Q", "R", "S", "T", "U", "V", "W", "X", "Y", "Z">>

LowerCase ==
    <<"a", "b", "c", "d", "e", "f", "g", "h", "i", "j", "k", "l", "m",
      "n", "o", "p", "q", "r", "s", "t", "u", "v", "w", "x", "y", "z">>

\* str.lower(), one character
LowerChar(c) ==
    IF \E k \in 1..Len(UpperCase) : UpperCase[k] = c
    THEN LowerCase[CHOOSE k \in 1..Len(UpperCase) : UpperCase[k] = c]
    ELSE c

\* str.lower()
Lower(name) == [k \in 1..Len(name) |-> LowerChar(name[k])]

\* str.endswith(suffix)
EndsWith(name, suffix) ==
    /\ Len(name) >= Len(suffix)
    /\ SubSeq(name, Len(name) - Len(suffix) + 1, Len(name)) = suffix

\* the tuple ('.psz', '.psx') of remove_from_subfolders
ProjectSuffixes == {<<".", "p", "s", "z">>, <<".", "p", "s", "x">>}

\* IsProjectFile without the lower() call
IsProjectFileCaseSensitive(name) ==
    \E suffix \in ProjectSuffixes : EndsWith(name, suffix)

\* file.lower().endswith(('.psz', '.psx'))
IsProjectFile(name) ==
    \E suffix \in ProjectSuffixes : EndsWith(Lower(name), suffix)

NameA == <<"a", ".", "p", "s", "x">>
NameB == <<"B", ".", "P", "s", "Z">>
NameNotes == <<"n", ".", "t", "x", "t">>
NameBackup == <<"a", ".", "p", "s", "x", ".", "b", "a", "k">>
NameNoDot == <<"p", "s", "x">>
NameLonger == <<"c", ".", "p", "s", "x", "x">>

\* The directories, each with its sub-directories and files in the order
\* os.walk lists them.
Tree ==
    [top |-> [dirs |-> <<"sub", "assets">>,
              files |-> <<NameNotes, NameA, NameBackup>>],
     sub |-> [dirs |-> <<"deep">>, files |-> <<NameNoDot>>],
     deep |-> [dirs |-> <<>>, files |-> <<NameLonger, NameB>>],
     assets |-> [dirs |-> <<>>, files |-> <<NameNotes>>]]

Folders == DOMAIN Tree

\* os.path.join(root, file)
Join(root, file) == [dir |-> root, name |-> file]

PathA == Join("top", NameA)
PathB == Join("deep", NameB)

\* the project files that exist on disk
ProjectPaths == {PathA, PathB}

RECURSIVE Flatten(_)
Flatten(ss) == IF ss = <<>> THEN <<>> ELSE Head(ss) \o Flatten(Tail(ss))

\* Walk that does not descend into sub-directories
WalkTopOnly(folder) ==
    LET files == SelectSeq(Tree[folder].files, IsProjectFile)
    IN  [k \in 1..Len(files) |-> Join(folder, files[k])]

\* The os.walk loop of remove_from_subfolders: the matching files of the
\* folder, then those of each sub-directory, top-down.
RECURSIVE Walk(_)
Walk(folder) ==
    LET files == SelectSeq(Tree[folder].files, IsProjectFile)
        here == [k \in 1..Len(files) |-> Join(folder, files[k])]
        dirs == Tree[folder].dirs
    IN  here \o Flatten([k \in 1..Len(dirs) |-> Walk(dirs[k])])

\* the list comprehension of process_selected_projects
SelectedFiles(paths, boxes) ==
    LET idx == SelectSeq([k \in 1..Len(paths) |-> k], LAMBDA k : boxes[k])
    IN  [k \in 1..Len(idx) |-> paths[idx[k]]]

\* toggle_select_all
toggle_select_all(boxes, state) == [k \in 1..Len(boxes) |-> state]

(***************************************************************************)
(* State.                                                                  *)
(***************************************************************************)
VARIABLES
    checked,          \* the asset checkboxes that are checked
    toggles,          \* checkbox clicks made so far
    appdoc,           \* Metashape.app.document.chunk
    disk,             \* the chunk saved in each project file
    pc,               \* where the running handler stands ("idle": none runs)
    mode,             \* the handler that runs the batch
    folder,           \* remove_from_subfolders: the local folder_path
    file_paths,       \* project_selection_table: the rows of the table
    boxes,            \* project_selection_table: the row checkboxes
    touched,          \* the user has clicked in the open table
    targets,          \* projects / file_paths / selected_files of the batch
    selected_assets,  \* the local selected_assets
    i,                \* index of the loop over the targets
    j,                \* index of the loop over selected_assets
    chunk,            \* the local chunk
    doc,              \* index of the target the local doc has open, 0: none
    log,              \* the local log
    trace,            \* what the handler has done so far
    faults,           \* host calls that raised so far
    batches,          \* mode-button clicks so far
    escaped,          \* an exception left a handler
    h_chunk,          \* dispatcher check: the chunk passed
    h_type,           \* dispatcher check: the label passed
    h_res,            \* dispatcher check: the outcome of the call
    h_pc              \* dispatcher check: "ready" or "returned"

widgets == <<checked, toggles>>
host == <<appdoc, disk>>
table == <<folder, file_paths, boxes, touched>>
locals == <<mode, targets, selected_assets, i, j, chunk, doc, log, trace>>
session == <<batches, escaped, faults>>
hvars == <<h_chunk, h_type, h_res, h_pc>>
vars == <<widgets, host, pc, table, locals, session, hvars>>

\* documents of the model
ChunkCurrent == MkChunk("Chunk 1", "None", <<TRUE, TRUE>>, Collections, TRUE)
ChunkA == MkChunk("Chunk 1", "kp", <<TRUE>>, Collections, TRUE)
ChunkB == MkChunk("survey", "nokp", <<>>, {"point_clouds"}, FALSE)

NoResult == [ret |-> "none", chunk |-> NoChunk, ops |-> <<>>]

\* no handler is running: its locals do not exist
LocalsReset ==
    /\ mode' = "none"
    /\ targets' = <<>>
    /\ selected_assets' = <<>>
    /\ i' = 0
    /\ j' = 0
    /\ chunk' = NoChunk
    /\ doc' = 0
    /\ log' = <<>>
    /\ trace' = <<>>

Init ==
    /\ checked = DefaultChecked
    /\ toggles = 0
    /\ \/ /\ appdoc = ChunkCurrent
          /\ disk = [p \in ProjectPaths |-> IF p = PathA THEN ChunkA ELSE NoChunk]
       \/ /\ appdoc = NoChunk
          /\ disk = [p \in ProjectPaths |-> IF p = PathA THEN ChunkA ELSE ChunkB]
    /\ pc = "idle"
    /\ mode = "none"
    /\ folder = ""
    /\ file_paths = <<>>
    /\ boxes = <<>>
    /\ touched = FALSE
    /\ targets = <<>>
    /\ selected_assets = <<>>
    /\ i = 0
    /\ j = 0
    /\ chunk = NoChunk
    /\ doc = 0
    /\ log = <<>>
    /\ trace = <<>>
    /\ faults = 0
    /\ batches = 0
    /\ escaped = FALSE
    /\ h_chunk = NoChunk
    /\ h_type = ""
    /\ h_res = NoResult
    /\ h_pc = "off"

(***************************************************************************)
(* What the handlers record.                                               *)
(***************************************************************************)
Event(ev, k, asset, res) == [ev |-> ev, i |-> k, asset |-> asset, res |-> res]

Entry(msg, asset, project, color) ==
    [msg |-> msg, asset |-> asset, project |-> project, color |-> color]

\* the two log.append calls after handle_assets
AssetEntry(success, asset, project) ==
    IF success
    THEN Entry("Successfully removed", asset, project, "black")
    ELSE Entry("Failed to remove", asset, project, "red")

\* the log.append call of the except clause of the batch loop
ErrorEntry(project) == Entry("Failed to open or process", "", project, "red")

\* confirm_removal that takes any reply for Yes
confirm_removal_any(reply) == TRUE

\* confirm_removal: reply == QMessageBox.Yes
confirm_removal(reply) == reply = "Yes"

\* the batch loop that stops at the first target that raises
ContinueAbort(k, n) == [pc |-> "log", i |-> k]

\* The for loop over the targets: where the handler stands once target k of
\* n is finished, by doc.save() or by the except clause.
Continue(k, n) ==
    IF k < n THEN [pc |-> "open", i |-> k + 1] ELSE [pc |-> "log", i |-> k]

\* AppendAssetEntry that logs a failed removal twice
AppendAssetEntryTwice(lg, success, asset, project) ==
    IF success
    THEN Append(lg, AssetEntry(success, asset, project))
    ELSE Append(Append(lg, AssetEntry(success, asset, project)),
                AssetEntry(success, asset, project))

\* the if success / else after each handle_assets call
AppendAssetEntry(lg, success, asset, project) ==
    Append(lg, AssetEntry(success, asset, project))

\* AfterAssets that saves in every mode
AfterAssetsAlwaysSave(m) == "save"

\* What follows the loop over selected_assets: doc.save() in the two file
\* modes, show_log in remove_from_project.
AfterAssets(m) == IF m = "current" THEN "log" ELSE "save"

(***************************************************************************)
(* The main dialog.                                                        *)
(***************************************************************************)
\* the user clicks one asset checkbox (followed up to the last batch of the
\* session)
ToggleCheckbox(a) ==
    /\ pc = "idle"
    /\ toggles < MaxToggles
    /\ batches < MaxBatches
    /\ checked' = IF a \in checked THEN checked \ {a} ELSE checked \cup {a}
    /\ toggles' = toggles + 1
    /\ UNCHANGED <<host, pc, table, locals, session, hvars>>

\* remove_from_project, up to the confirmation dialog.  With no chunk in
\* the current document, projects = [chunk.label] raises.
remove_from_project ==
    /\ pc = "idle"
    /\ batches < MaxBatches
    /\ batches' = batches + 1
    /\ IF appdoc.kind = "None"
       THEN /\ escaped' = TRUE
            /\ UNCHANGED <<pc, locals>>
       ELSE /\ mode' = "current"
            /\ chunk' = appdoc
            /\ selected_assets' = get_selected_assets(checked)
            /\ targets' = <<appdoc.label>>
            /\ log' = <<>>
            /\ trace' = <<>>
            /\ pc' = "confirm"
            /\ UNCHANGED <<i, j, doc, escaped>>
    /\ UNCHANGED <<widgets, host, table, faults, hvars>>

\* select_project when the file dialog is cancelled
select_project_cancel ==
    /\ pc = "idle"
    /\ batches < MaxBatches
    /\ batches' = batches + 1
    /\ UNCHANGED <<widgets, host, pc, table, locals, escaped, faults, hvars>>

\* the lists QFileDialog.selectedFiles() can return
FileChoices ==
    {<<PathA>>, <<PathB>>, <<PathA, PathB>>, <<PathB, PathA>>}

\* select_project, from the accepted file dialog up to the confirmation
select_project(paths) ==
    /\ pc = "idle"
    /\ batches < MaxBatches
    /\ batches' = batches + 1
    /\ IF get_selected_assets(checked) = <<>>
       THEN UNCHANGED <<pc, locals>>
       ELSE /\ mode' = "select"
            /\ targets' = paths
            /\ selected_assets' = get_selected_assets(checked)
            /\ log' = <<>>
            /\ trace' = <<>>
            /\ pc' = "confirm"
            /\ UNCHANGED <<i, j, chunk, doc>>
    /\ UNCHANGED <<widgets, host, table, escaped, faults, hvars>>

\* remove_from_subfolders when the folder dialog is cancelled
remove_from_subfolders_cancel ==
    /\ pc = "idle"
    /\ batches < MaxBatches
    /\ batches' = batches + 1
    /\ UNCHANGED <<widgets, host, pc, table, locals, escaped, faults, hvars>>

\* remove_from_subfolders with a folder chosen, and project_selection_table
\* up to dialog.exec_()
remove_from_subfolders(f) ==
    /\ pc = "idle"
    /\ batches < MaxBatches
    /\ batches' = batches + 1
    /\ IF Walk(f) = <<>>
       THEN UNCHANGED <<pc, table>>
       ELSE /\ folder' = f
            /\ file_paths' = Walk(f)
            /\ boxes' = [k \in 1..Len(Walk(f)) |-> TRUE]
            /\ touched' = FALSE
            /\ pc' = "table"
    /\ UNCHANGED <<widgets, host, locals, escaped, faults, hvars>>

(***************************************************************************)
(* The project selection table.                                            *)
(***************************************************************************)
\* the user clicks the checkbox of row k
ToggleRow(k) ==
    /\ pc = "table"
    /\ k \in 1..Len(boxes)
    /\ boxes' = [boxes EXCEPT ![k] = ~@]
    /\ touched' = TRUE
    /\ UNCHANGED <<widgets, host, pc, folder, file_paths, locals, session, hvars>>

\* the Select All button
SelectAll ==
    /\ pc = "table"
    /\ boxes' = toggle_select_all(boxes, TRUE)
    /\ touched' = TRUE
    /\ UNCHANGED <<widgets, host, pc, folder, file_paths, locals, session, hvars>>

\* the Deselect All button
DeselectAll ==
    /\ pc = "table"
    /\ boxes' = toggle_select_all(boxes, FALSE)
    /\ touched' = TRUE
    /\ UNCHANGED <<widgets, host, pc, folder, file_paths, locals, session, hvars>>

\* the user closes the table without OK
CloseTable ==
    /\ pc = "table"
    /\ pc' = "idle"
    /\ folder' = ""
    /\ file_paths' = <<>>
    /\ boxes' = <<>>
    /\ touched' = FALSE
    /\ UNCHANGED <<widgets, host, locals, session, hvars>>

\* the OK button: process_selected_projects up to the confirmation.  The
\* table keeps its rows until the handler returns.
process_selected_projects ==
    /\ pc = "table"
    /\ IF SelectedFiles(file_paths, boxes) = <<>>
          \/ get_selected_assets(checked) = <<>>
       THEN /\ pc' = "idle"
            /\ folder' = ""
            /\ file_paths' = <<>>
            /\ boxes' = <<>>
            /\ touched' = FALSE
            /\ UNCHANGED locals
       ELSE /\ mode' = "subfolders"
            /\ targets' = SelectedFiles(file_paths, boxes)
            /\ selected_assets' = get_selected_assets(checked)
            /\ log' = <<>>
            /\ trace' = <<>>
            /\ pc' = "confirm"
            /\ touched' = FALSE
            /\ UNCHANGED <<i, j, chunk, doc, folder, file_paths, boxes>>
    /\ UNCHANGED <<widgets, host, session, hvars>>

(***************************************************************************)
(* The batch: confirmation, the loop over the targets, the log.            *)
(***************************************************************************)
\* the user answers the question of confirm_removal
Confirm(reply) ==
    /\ pc = "confirm"
    /\ trace' = Append(trace, Event("confirm", 0, "", reply))
    /\ IF confirm_removal(reply)
       THEN /\ i' = 1
            /\ IF mode = "current"
               THEN /\ j' = IF selected_assets = <<>> THEN 0 ELSE 1
                    /\ pc' = IF selected_assets = <<>> THEN "log" ELSE "assets"
               ELSE /\ j' = 0
                    /\ pc' = "open"
       ELSE /\ pc' = "return"
            /\ UNCHANGED <<i, j>>
    /\ UNCHANGED <<widgets, host, table, mode, targets, selected_assets,
                   chunk, doc, log, session, hvars>>

\* the handler returns without a log: after a No, or by an exception
Return ==
    /\ pc = "return"
    /\ pc' = "idle"
    /\ LocalsReset
    /\ folder' = ""
    /\ file_paths' = <<>>
    /\ boxes' = <<>>
    /\ touched' = FALSE
    /\ UNCHANGED <<widgets, host, session, hvars>>

\* doc = Metashape.Document(); doc.open(file_path); chunk = doc.chunk
OpenStep(raises) ==
    /\ pc = "open"
    /\ raises => faults < MaxFaults
    /\ IF raises
       THEN /\ trace' = Append(trace, Event("open", i, "", "raise"))
            /\ log' = Append(log, ErrorEntry(targets[i]))
            /\ faults' = faults + 1
            /\ doc' = 0
            /\ pc' = Continue(i, Len(targets)).pc
            /\ i' = Continue(i, Len(targets)).i
            /\ UNCHANGED <<j, chunk>>
       ELSE /\ trace' = Append(trace, Event("open", i, "", "ok"))
            /\ doc' = i
            /\ chunk' = disk[targets[i]]
            /\ j' = 1
            /\ pc' = "assets"
            /\ UNCHANGED <<i, log, faults>>
    /\ UNCHANGED <<widgets, host, table, mode, targets, selected_assets,
                   batches, escaped, hvars>>

\* the host operations of one handle_assets call that can be made to raise
FaultChoices(c, asset) ==
    IF c.kind = "None" \/ asset \notin ValidLabels
    THEN {0}
    ELSE 0..Len(HostOps(c, asset))

\* one iteration of the loop over selected_assets
AssetStep(fault) ==
    /\ pc = "assets"
    /\ fault \in FaultChoices(chunk, selected_assets[j])
    /\ fault > 0 => faults < MaxFaults
    /\ LET asset == selected_assets[j]
           r == handle_assets(chunk, asset, fault)
           last == j = Len(selected_assets)
       IN  /\ trace' = Append(trace, Event("handle", i, asset, r.ret))
           /\ faults' = IF fault > 0 THEN faults + 1 ELSE faults
           /\ IF r.ret = "raise"
              THEN IF mode = "current"
                   THEN /\ escaped' = TRUE
                        /\ pc' = "return"
                        /\ UNCHANGED <<i, j, chunk, doc, log, appdoc>>
                   ELSE /\ log' = Append(log, ErrorEntry(targets[i]))
                        /\ pc' = Continue(i, Len(targets)).pc
                        /\ i' = Continue(i, Len(targets)).i
                        /\ UNCHANGED <<j, chunk, doc, appdoc, escaped>>
              ELSE /\ log' = AppendAssetEntry(log, r.ret = "True", asset,
                                              targets[i])
                   /\ chunk' = r.chunk
                   /\ appdoc' = IF mode = "current" THEN r.chunk ELSE appdoc
                   /\ j' = IF last THEN j ELSE j + 1
                   /\ pc' = IF last THEN AfterAssets(mode) ELSE "assets"
                   /\ UNCHANGED <<i, doc, escaped>>
    /\ UNCHANGED <<widgets, disk, table, mode, targets, selected_assets,
                   batches, hvars>>

\* doc.save()
SaveStep(raises) ==
    /\ pc = "save"
    /\ raises => faults < MaxFaults
    /\ IF raises
       THEN /\ trace' = Append(trace, Event("save", i, "", "raise"))
            /\ log' = Append(log, ErrorEntry(targets[i]))
            /\ faults' = faults + 1
            /\ UNCHANGED disk
       ELSE /\ trace' = Append(trace, Event("save", i, "", "ok"))
            /\ disk' = [disk EXCEPT ![targets[i]] = chunk]
            /\ UNCHANGED <<log, faults>>
    /\ pc' = Continue(i, Len(targets)).pc
    /\ i' = Continue(i, Len(targets)).i
    /\ UNCHANGED <<widgets, appdoc, table, mode, targets, selected_assets,
                   j, chunk, doc, batches, escaped, hvars>>

\* show_log: the user closes the log dialog and the handler returns
show_log ==
    /\ pc = "log"
    /\ pc' = "idle"
    /\ LocalsReset
    /\ folder' = ""
    /\ file_paths' = <<>>
    /\ boxes' = <<>>
    /\ touched' = FALSE
    /\ UNCHANGED <<widgets, host, session, hvars>>

Next ==
    \/ \E a \in CheckboxLabels : ToggleCheckbox(a)
    \/ remove_from_project
    \/ select_project_cancel
    \/ \E paths \in FileChoices : select_project(paths)
    \/ remove_from_subfolders_cancel
    \/ \E f \in Folders : remove_from_subfolders(f)
    \/ \E k \in 1..Len(boxes) : ToggleRow(k)
    \/ SelectAll
    \/ DeselectAll
    \/ CloseTable
    \/ process_selected_projects
    \/ \E reply \in {"Yes", "No"} : Confirm(reply)
    \/ Return
    \/ \E raises \in BOOLEAN : OpenStep(raises)
    \/ \E fault \in 0..2 : AssetStep(fault)
    \/ \E raises \in BOOLEAN : SaveStep(raises)
    \/ show_log

Spec == Init /\ [][Next]_vars

(***************************************************************************)
(* The dispatcher on its own: handle_assets applied to one chunk and one   *)
(* label, valid or not.                                                    *)
(***************************************************************************)
TiePointStates == {"None", "kp", "nokp"}
OrthomosaicStates == {<<>>, <<TRUE>>, <<TRUE, FALSE>>}

ChunkSamples ==
    {NoChunk} \cup
    {MkChunk("Chunk 1", tp, om, cs, sh) :
        tp \in TiePointStates, om \in OrthomosaicStates,
        cs \in {{}, Collections}, sh \in BOOLEAN}

InitDispatch ==
    /\ checked = DefaultChecked
    /\ toggles = 0
    /\ appdoc = NoChunk
    /\ disk = [p \in ProjectPaths |-> NoChunk]
    /\ pc = "dispatch"
    /\ mode = "none"
    /\ folder = ""
    /\ file_paths = <<>>
    /\ boxes = <<>>
    /\ touched = FALSE
    /\ targets = <<>>
    /\ selected_assets = <<>>
    /\ i = 0
    /\ j = 0
    /\ chunk = NoChunk
    /\ doc = 0
    /\ log = <<>>
    /\ trace = <<>>
    /\ faults = 0
    /\ batches = 0
    /\ escaped = FALSE
    /\ h_chunk \in ChunkSamples
    /\ h_type \in ValidLabels \cup UnknownLabels
    /\ h_res = NoResult
    /\ h_pc = "ready"

\* one call handle_assets(h_chunk, h_type)
CallHandleAssets(fault) ==
    /\ h_pc = "ready"
    /\ fault \in FaultChoices(h_chunk, h_type)
    /\ h_res' = handle_assets(h_chunk, h_type, fault)
    /\ h_pc' = "returned"
    /\ UNCHANGED <<widgets, host, pc, table, locals, session, h_chunk, h_type>>

NextDispatch == \E fault \in 0..2 : CallHandleAssets(fault)

SpecDispatch == InitDispatch /\ [][NextDispatch]_vars

(***************************************************************************)
(* Properties.                                                             *)
(***************************************************************************)
FileMode == mode \in {"select", "subfolders"}
HostEvents == {"open", "handle", "save"}
N == Len(targets)
M == Len(selected_assets)

\* what the handler did for target k, in order
EventsOf(k) == SelectSeq(trace, LAMBDA e : e.ev \in HostEvents /\ e.i = k)
HandlesOf(k) == SelectSeq(trace, LAMBDA e : e.ev = "handle" /\ e.i = k)
Count(k, ev, res) ==
    Cardinality({p \in 1..Len(trace) :
        trace[p].ev = ev /\ trace[p].i = k /\ trace[p].res = res})
Answered(reply) ==
    \E p \in 1..Len(trace) : trace[p].ev = "confirm" /\ trace[p].res = reply

\* C1: whatever the mode, a handle_assets call, a document open or a document
\* save happens only after the confirmation of the same batch was answered
\* Yes; after a No the batch does none of them.
C1_ConfirmedFirst ==
    /\ \A p \in 1..Len(trace) :
          trace[p].ev \in HostEvents =>
             \E q \in 1..(p - 1) :
                trace[q].ev = "confirm" /\ trace[q].res = "Yes"
    /\ Answered("No") => \A p \in 1..Len(trace) : trace[p].ev = "confirm"
    /\ pc \in {"open", "assets", "save", "log"} => Answered("Yes")

C1_Witness ==
    /\ pc = "return"
    /\ mode = "subfolders"
    /\ trace = <<Event("confirm", 0, "", "No")>>

\* C2: no handle_assets call lets an exception escape: every call returns
\* True or False, for every chunk handle the callers pass.
C2_NeverRaises ==
    \A p \in 1..Len(trace) :
       trace[p].ev = "handle" => trace[p].res \in {"True", "False"}

\* C9: in Current mode the target list is the one open project, and the
\* batch opens no document and saves none.
C9_CurrentNoFileIO ==
    mode = "current" =>
       /\ targets = <<appdoc.label>>
       /\ appdoc.kind = "Chunk"
       /\ chunk = appdoc
       /\ doc = 0
       /\ pc \notin {"open", "save"}
       /\ \A p \in 1..Len(trace) : trace[p].ev \notin {"open", "save"}

C9_Witness ==
    /\ mode = "current"
    /\ pc = "log"
    /\ Len(log) = M
    /\ \E p \in 1..Len(log) : log[p].color = "red"
    /\ \E p \in 1..Len(log) : log[p].color = "black"

\* position of a label among the checkboxes as declared
Rank(a) == CHOOSE k \in 1..Len(CheckboxOrder) : CheckboxOrder[k] = a

\* C10: in every mode the batch works on exactly the checked asset kinds and
\* dispatches them, for each project, in checkbox declaration order; so Key
\* Points is never attempted after Tie Points, nor Orthophotos after
\* Orthomosaics, on the same project.
C10_DeclarationOrder ==
    /\ pc \in {"confirm", "open", "assets", "save", "log"} =>
          Range(selected_assets) = checked
    /\ \A p \in 1..Len(trace) :
          trace[p].ev = "handle" =>
             \A q \in (p + 1)..Len(trace) :
                trace[q].ev = "handle" /\ trace[q].i = trace[p].i =>
                   /\ Rank(trace[p].asset) < Rank(trace[q].asset)
                   /\ ~(/\ trace[p].asset = "Tie Points"
                        /\ trace[q].asset = "Key Points")
                   /\ ~(/\ trace[p].asset = "Orthomosaics"
                        /\ trace[q].asset = "Orthophotos")

C10_Witness ==
    /\ pc = "log"
    /\ \E p, q \in 1..Len(trace) :
          /\ p < q
          /\ trace[p].i = trace[q].i
          /\ trace[p].ev = "handle" /\ trace[p].asset = "Key Points"
          /\ trace[q].ev = "handle" /\ trace[q].asset = "Tie Points"
    /\ \E p, q \in 1..Len(trace) :
          /\ p < q
          /\ trace[p].i = trace[q].i
          /\ trace[p].ev = "handle" /\ trace[p].asset = "Orthophotos"
          /\ trace[q].ev = "handle" /\ trace[q].asset = "Orthomosaics"

\* the log entries about target k, in order
EntriesOf(k) == SelectSeq(log, LAMBDA e : e.project = targets[k])

\* the log is project-major: entries and events of a target never follow
\* those of a later target
ProjectMajor ==
    /\ \A p, q \in 1..Len(trace) :
          p < q /\ trace[p].ev \in HostEvents => trace[p].i <= trace[q].i
    /\ \A p, q \in 1..Len(log) :
          p < q =>
             \E a, b \in 1..N :
                a <= b /\ log[p].project = targets[a]
                       /\ log[q].project = targets[b]

\* the asset entries of target k follow the selected kinds, in order
AssetMinor(k) ==
    LET es == SelectSeq(EntriesOf(k), LAMBDA e : e.asset # "")
    IN  /\ Len(es) <= M
        /\ \A p \in 1..Len(es) : es[p].asset = selected_assets[p]

\* C3 as stated has this consequence: at the end of a confirmed batch over
\* N files with M kinds a target whose open failed got no handle_assets
\* call, and the log holds at most N x M entries, in project-major,
\* asset-kind-minor order, whatever the open, removal and save outcomes.
C3_AtMostNxM ==
    pc = "log" /\ FileMode =>
       /\ \A k \in 1..N :
             Count(k, "open", "raise") = 1 => Len(HandlesOf(k)) = 0
       /\ Len(log) <= N * M
       /\ ProjectMajor
       /\ \A k \in 1..N : AssetMinor(k)

\* the block of log entries the batch loop leaves for target k
ExpectedEntries(k) ==
    LET hs == HandlesOf(k)
        rets == SelectSeq(hs, LAMBDA e : e.res # "raise")
        failed == \/ Count(k, "open", "raise") = 1
                  \/ Count(k, "save", "raise") = 1
                  \/ \E p \in 1..Len(hs) : hs[p].res = "raise"
    IN  [p \in 1..Len(rets) |->
            AssetEntry(rets[p].res = "True", rets[p].asset, targets[k])]
        \o (IF failed THEN <<ErrorEntry(targets[k])>> ELSE <<>>)

\* C3 amended: a target whose open failed gets no handle_assets call and one
\* error entry; a target that opened with a chunk gets exactly M calls and M
\* entries, and one more error entry when its save raised; a target that
\* opened without a chunk gets one call, which raises, and one error entry.
\* The log is project-major, asset-kind-minor and holds at most N x (M + 1)
\* entries.
C3_AtMostNxMPlusN ==
    pc = "log" /\ FileMode =>
       /\ \A k \in 1..N :
             /\ Count(k, "open", "ok") + Count(k, "open", "raise") = 1
             /\ Count(k, "open", "raise") = 1 =>
                   /\ Len(HandlesOf(k)) = 0
                   /\ EntriesOf(k) = <<ErrorEntry(targets[k])>>
             /\ Count(k, "open", "ok") = 1 /\ disk[targets[k]].kind = "Chunk" =>
                   /\ Len(HandlesOf(k)) = M
                   /\ Len(EntriesOf(k)) = M + Count(k, "save", "raise")
             /\ Count(k, "open", "ok") = 1 /\ disk[targets[k]].kind = "None" =>
                   /\ Len(HandlesOf(k)) = 1
                   /\ EntriesOf(k) = <<ErrorEntry(targets[k])>>
             /\ EntriesOf(k) = ExpectedEntries(k)
             /\ AssetMinor(k)
       /\ ProjectMajor
       /\ Len(log) <= N * (M + 1)

C3_Witness ==
    /\ pc = "log"
    /\ FileMode
    /\ Len(HandlesOf(1)) = M
    /\ Count(1, "save", "raise") = 1
    /\ Len(log) = N * M + 1

\* C4: in the two file modes an exception of doc.open or doc.save is caught
\* by the loop: the target gets exactly one "Failed to open or process"
\* entry, in red, and every later target is still opened; a target whose
\* open raised gets no handle_assets call and no save.
C4_FailureIsolated ==
    FileMode =>
       /\ \A k \in 1..N :
             LET errors == SelectSeq(EntriesOf(k),
                              LAMBDA e : e.msg = "Failed to open or process")
             IN  /\ Count(k, "open", "raise") + Count(k, "save", "raise") = 1 =>
                       /\ errors = <<ErrorEntry(targets[k])>>
                       /\ errors[1].color = "red"
                       /\ pc = "log" \/ i > k
                 /\ Count(k, "open", "raise") = 1 =>
                       /\ Len(HandlesOf(k)) = 0
                       /\ Count(k, "save", "ok") + Count(k, "save", "raise") = 0
       /\ pc = "log" =>
             \A k \in 1..N :
                Count(k, "open", "ok") + Count(k, "open", "raise") = 1
       /\ pc \in {"open", "assets", "save"} =>
             \A k \in 1..(i - 1) :
                Count(k, "open", "ok") + Count(k, "open", "raise") = 1

C4_Witness ==
    /\ pc = "log"
    /\ FileMode
    /\ N = 2
    /\ Count(1, "open", "raise") = 1
    /\ Count(2, "open", "ok") = 1
    /\ Len(HandlesOf(2)) = M
    /\ Count(2, "save", "ok") = 1

\* C7: in the two file modes the targets are worked on one after the other,
\* each as open, then the M removals, then save; at most one document is
\* open and not yet saved at any point; and every target whose open
\* succeeded is saved exactly once.
C7_OpenRemoveSave ==
    FileMode =>
       /\ \A p, q \in 1..Len(trace) :
             p < q /\ trace[p].ev \in HostEvents => trace[p].i <= trace[q].i
       /\ \A k \in 1..N :
             LET es == EventsOf(k)
             IN  \A p \in 1..Len(es) :
                    /\ p = 1 <=> es[p].ev = "open"
                    /\ p \in 2..(M + 1) <=> es[p].ev = "handle"
                    /\ p = M + 2 <=> es[p].ev = "save"
       /\ Cardinality({k \in 1..N :
             /\ Count(k, "open", "ok") = 1
             /\ Count(k, "save", "ok") + Count(k, "save", "raise") = 0
             /\ doc = k}) <= 1
       /\ \A k \in 1..N :
             /\ Count(k, "open", "ok") = 1
             /\ pc = "log" \/ i > k
             => Count(k, "save", "ok") + Count(k, "save", "raise") = 1

\* a name ends in .psz or .psx, in any mix of cases
HasProjectSuffix(name) ==
    LET n == Len(name)
    IN  /\ n >= 4
        /\ name[n - 3] = "."
        /\ name[n - 2] \in {"p", "P"}
        /\ name[n - 1] \in {"s", "S"}
        /\ name[n] \in {"x", "X", "z", "Z"}

\* the directories at any depth under d, d included
RECURSIVE Under(_)
Under(d) ==
    {d} \cup UNION {Under(Tree[d].dirs[k]) : k \in 1..Len(Tree[d].dirs)}

\* the project files at any depth under d
ProjectFilesUnder(d) ==
    UNION {{Join(e, Tree[e].files[k]) :
              k \in {x \in 1..Len(Tree[e].files) :
                        HasProjectSuffix(Tree[e].files[x])}} :
           e \in Under(d)}

\* row of the table that shows path
RowOf(path) == CHOOSE k \in 1..Len(file_paths) : file_paths[k] = path

C8_Discovered ==
    pc = "table" \/ mode = "subfolders" =>
       /\ Range(file_paths) = ProjectFilesUnder(folder)
       /\ Cardinality(Range(file_paths)) = Len(file_paths)
       /\ Len(boxes) = Len(file_paths)
       /\ mode = "subfolders" =>
             /\ Range(targets) = {file_paths[k] : k \in {x \in 1..Len(boxes) : boxes[x]}}
             /\ Cardinality(Range(targets)) = N
             /\ \A a, b \in 1..N :
                   a < b => RowOf(targets[a]) < RowOf(targets[b])
             /\ \A k \in 1..Len(boxes) :
                   ~boxes[k] =>
                      \A p \in 1..Len(trace) :
                         trace[p].ev \in HostEvents =>
                            targets[trace[p].i] # file_paths[k]

C8_AllStartSelected ==
    pc = "table" /\ ~touched =>
       /\ boxes # <<>>
       /\ \A k \in 1..Len(boxes) : boxes[k]

\* C8: the table lists exactly the files at any depth under the chosen
\* folder whose name ends in .psz or .psx in any case, all of them checked
\* at first; after any toggles and Select All / Deselect All, OK makes the
\* checked files the targets, in discovery order, and no unchecked file is
\* opened or saved.
C8_ScanAndSelection == C8_Discovered /\ C8_AllStartSelected

C8_Witness ==
    /\ mode = "subfolders"
    /\ pc = "log"
    /\ file_paths = <<PathA, PathB>>
    /\ boxes = <<FALSE, TRUE>>
    /\ targets = <<PathB>>
    /\ Count(1, "open", "ok") = 1

\* the labels of the enumeration, spelled as the spec lists them
Enumerated ==
    {"Key Points", "Tie Points", "Depth Maps", "Point Clouds", "Models",
     "Tiled Models", "DEMs", "Orthophotos", "Orthomosaics", "Shapes"}

\* C5 as stated, for the chunks the host returns: for every valid label one
\* handle_assets call makes exactly one host removal operation.
C5_ExactlyOneOp ==
    h_pc = "returned" /\ h_type \in Enumerated /\ h_chunk.kind = "Chunk" =>
       Len(h_res.ops) = 1

\* C5 amended: on a chunk, Tie Points, Depth Maps, Point Clouds, Models,
\* Tiled Models, DEMs, Orthomosaics and Shapes make exactly one host
\* operation; Key Points makes one when the chunk has a tie-point set and
\* none otherwise; Orthophotos makes one removeOrthophotos call per
\* orthomosaic, in order, stopping at the first that raises.  Without a
\* chunk no host operation is made.
C5_OpsPerLabel ==
    h_pc = "returned" /\ h_type \in Enumerated =>
       LET n == Len(h_res.ops)
           orthos == Len(h_chunk.orthomosaics)
       IN  /\ h_chunk.kind = "None" => n = 0
           /\ h_chunk.kind = "Chunk" =>
                 /\ h_type \notin {"Key Points", "Orthophotos"} => n = 1
                 /\ h_type = "Key Points" =>
                       n = IF h_chunk.tie_points = "None" THEN 0 ELSE 1
                 /\ h_type = "Orthophotos" =>
                       /\ h_res.ret = "True" => n = orthos
                       /\ h_res.ret = "False" => n \in 1..orthos
                       /\ \A k \in 1..n :
                             h_res.ops[k] = [op |-> "removeOrthophotos", arg |-> k]

C5_Witness ==
    /\ h_pc = "returned"
    /\ h_type = "Orthophotos"
    /\ h_chunk.kind = "Chunk"
    /\ Len(h_res.ops) = 2
    /\ h_res.ret = "True"

\* C6: for a label outside the enumeration handle_assets returns False,
\* makes no host operation and leaves the chunk as it was.
C6_UnknownLabel ==
    h_pc = "returned" /\ h_type \notin Enumerated =>
       /\ h_res.ret = "False"
       /\ h_res.ops = <<>>
       /\ h_res.chunk = h_chunk

C6_Witness ==
    /\ h_pc = "returned"
    /\ h_type = "Cameras"
    /\ h_chunk.kind = "Chunk"
    /\ h_chunk.shapes
    /\ h_res.ret = "False"

====
